---- MODULE Spec2Model ----
(***************************************************************************)
(* The Pips solver of mmandrus/pips-solver: the board (grid squares,       *)
(* restrictions, dominoes), the move queue with its undo closures          *)
(* (src/model.go, the region-aware variant, lines 1-315) and the           *)
(* backtracking search makeNextMove / pickEmptySquare (src/main.go).       *)
(*                                                                         *)
(* main.go names the restriction's square counter NumSquaresAffected; the  *)
(* region-aware model.go names the one counter of Restriction              *)
(* NumSquaresLeft.  The model has that one counter, set to the region's    *)
(* size by the loader and decremented by Assign.                           *)
(*                                                                         *)
(* Spec is the search on puzzles with at most MaxRegions regions;          *)
(* SpecManyRegions is the same search on puzzles with up to one region per *)
(* square.  Two history fields are kept beside the program's state: entry  *)
(* (the board a makeNextMove invocation was entered with) in each frame    *)
(* and by (the depth of the invocation that pushed it) in each move.       *)
(***************************************************************************)
EXTENDS Integers, Sequences, FiniteSets

\* ------------------------------------------------------------------ bounds
Width == 2
Height == 2
MaxRegions == 1
MaxDominoes == 2
MaxPip == 1
MaxArg == 2

NumCells == Width * Height
Cells == 1..NumCells
\* restriction objects: 1..MaxRegions are the regions of parseRestrictedRegion,
\* MaxRegions + c is the private "none" object parseRow gives square c
RIds == 1..(MaxRegions + NumCells)
NoneOf(c) == MaxRegions + c

VARIABLES
    grid,            \* square -> its Restriction object (0: a nil, blank square)
    restrictions,    \* Restriction object -> [Type, Arg, NumSquaresLeft]
    dominoes,        \* DominoSet: sequence of [Square1Value, Square2Value, IsAssigned, rotation]
    DominoAssigned,  \* square -> the domino on it (0: nil)
    moveQueue,       \* MoveQueue: sequence of Move records (with their undo closure's captures)
    stack,           \* the makeNextMove invocations in progress, innermost last
    status,          \* where main is: "start", "search", "panic", "solved", "exhausted", "crashed"
    initial          \* the board as the loader built it

vars == <<grid, restrictions, dominoes, DominoAssigned, moveQueue, stack, status, initial>>

\* The mutable board as one value, for the operations that are functions of it.
Board == [R |-> restrictions, D |-> dominoes, O |-> DominoAssigned, Q |-> moveQueue]

\* ------------------------------------------------------------ grid graph
XOf(c) == (c - 1) % Width
YOf(c) == (c - 1) \div Width

\* buildGraph: the four neighbour links; a link to a blank square is nil (0)
TopNeighbor(c) == IF YOf(c) > 0 /\ grid[c - Width] # 0 THEN c - Width ELSE 0
BottomNeighbor(c) == IF YOf(c) < Height - 1 /\ grid[c + Width] # 0 THEN c + Width ELSE 0
LeftNeighbor(c) == IF XOf(c) > 0 /\ grid[c - 1] # 0 THEN c - 1 ELSE 0
RightNeighbor(c) == IF XOf(c) < Width - 1 /\ grid[c + 1] # 0 THEN c + 1 ELSE 0

\* ----------------------------------------------------------- Restriction
\* Check without the exact match on the last squares of a sum region
CheckWithoutExactSum(r, value, numSquares) ==
    CASE r.Type = "none" -> TRUE
      [] r.Type = "gt" -> value > r.Arg
      [] r.Type = "lt" -> value < r.Arg
      [] r.Type = "eq" -> r.Arg = -1 \/ value = r.Arg
      [] r.Type = "sum" -> ~(r.Arg - value < 0)
      [] OTHER -> FALSE

\* Check without the overshoot test of a sum region
CheckWithoutOvershoot(r, value, numSquares) ==
    CASE r.Type = "none" -> TRUE
      [] r.Type = "gt" -> value > r.Arg
      [] r.Type = "lt" -> value < r.Arg
      [] r.Type = "eq" -> r.Arg = -1 \/ value = r.Arg
      [] r.Type = "sum" -> ~(r.NumSquaresLeft = numSquares /\ value # r.Arg)
      [] OTHER -> FALSE

Check(r, value, numSquares) ==
    CASE r.Type = "none" -> TRUE
      [] r.Type = "gt" -> value > r.Arg
      [] r.Type = "lt" -> value < r.Arg
      [] r.Type = "eq" -> r.Arg = -1 \/ value = r.Arg
      [] r.Type = "sum" ->
            IF r.Arg - value < 0 THEN FALSE
            ELSE IF r.NumSquaresLeft = numSquares /\ value # r.Arg THEN FALSE
            ELSE TRUE
      [] OTHER -> FALSE

\* ---------------------------------------------------------------- Domino
\* Go's remainder keeps the sign of the dividend
GoRem(a, n) == IF a >= 0 THEN a % n ELSE -((-a) % n)

GetRotation(d) == GoRem(d.rotation, 4)

Rotate90DegreesClockwise(d) == [d EXCEPT !.rotation = @ + 1]

\* an undo of rotate that turns the same way again
RotateBackClockwise(d) == [d EXCEPT !.rotation = @ + 1]

Rotate90DegreesCounterClockwise(d) == [d EXCEPT !.rotation = @ - 1]

\* Swap that assigns each side its own value
SwapNothing(d) == [d EXCEPT !.Square1Value = d.Square1Value, !.Square2Value = d.Square2Value]

Swap(d) == [d EXCEPT !.Square1Value = d.Square2Value, !.Square2Value = d.Square1Value]

\* the switch of TryAssign: the neighbour the domino's facing points at (0: nil)
FacingNeighbor(s, rot) ==
    CASE rot = 0 -> RightNeighbor(s)
      [] rot = 1 -> BottomNeighbor(s)
      [] rot = 2 -> LeftNeighbor(s)
      [] rot = 3 -> TopNeighbor(s)
      [] OTHER -> 0

\* Assign marking only the selected square
AssignOccupancySelectedOnly(O, di, s, neighbor) == [O EXCEPT ![s] = di]

\* Assign: the board after the assignment, and what the undo closure captured
AssignOccupancy(O, di, s, neighbor) == [O EXCEPT ![s] = di, ![neighbor] = di]

Assign(b, di, s, neighbor) ==
    LET d == b.D[di]
        rs == grid[s]
        rn == grid[neighbor]
        wasBlank == b.R[rs].Type = "eq" /\ b.R[rs].Arg = -1
        R1 == IF wasBlank THEN [b.R EXCEPT ![rs].Arg = d.Square1Value] ELSE b.R
        neighborWasBlank == R1[rn].Type = "eq" /\ R1[rn].Arg = -1
        R2 == IF neighborWasBlank THEN [R1 EXCEPT ![rn].Arg = d.Square2Value] ELSE R1
        R3 == IF R2[rs].Type = "sum"
              THEN [R2 EXCEPT ![rs].Arg = @ - d.Square1Value, ![rs].NumSquaresLeft = @ - 1]
              ELSE R2
        R4 == IF R3[rn].Type = "sum"
              THEN [R3 EXCEPT ![rn].Arg = @ - d.Square2Value, ![rn].NumSquaresLeft = @ - 1]
              ELSE R3
    IN  [b |-> [b EXCEPT !.O = AssignOccupancy(b.O, di, s, neighbor),
                         !.R = R4,
                         !.D = [b.D EXCEPT ![di].IsAssigned = TRUE]],
         wasBlank |-> wasBlank,
         neighborWasBlank |-> neighborWasBlank]

\* an undo closure that leaves the neighbour square occupied
AssignUndoKeepsNeighbor(b, m) ==
    LET di == m.Domino
        s == m.GridSquare
        neighbor == m.neighbor
        rs == grid[s]
        rn == grid[neighbor]
        D1 == [b.D EXCEPT ![di].IsAssigned = FALSE]
        d == D1[di]
        R1 == IF m.wasBlank THEN [b.R EXCEPT ![rs].Arg = -1] ELSE b.R
        R2 == IF m.neighborWasBlank THEN [R1 EXCEPT ![rn].Arg = -1] ELSE R1
        R3 == IF R2[rs].Type = "sum"
              THEN [R2 EXCEPT ![rs].Arg = @ + d.Square1Value, ![rs].NumSquaresLeft = @ + 1]
              ELSE R2
        R4 == IF R3[rn].Type = "sum"
              THEN [R3 EXCEPT ![rn].Arg = @ + d.Square2Value, ![rn].NumSquaresLeft = @ + 1]
              ELSE R3
    IN  [b EXCEPT !.O = [b.O EXCEPT ![s] = 0], !.D = D1, !.R = R4]

\* the undoFunc closure of Assign, run on board b for the move m that holds its captures
AssignUndo(b, m) ==
    LET di == m.Domino
        s == m.GridSquare
        neighbor == m.neighbor
        rs == grid[s]
        rn == grid[neighbor]
        D1 == [b.D EXCEPT ![di].IsAssigned = FALSE]
        d == D1[di]
        R1 == IF m.wasBlank THEN [b.R EXCEPT ![rs].Arg = -1] ELSE b.R
        R2 == IF m.neighborWasBlank THEN [R1 EXCEPT ![rn].Arg = -1] ELSE R1
        R3 == IF R2[rs].Type = "sum"
              THEN [R2 EXCEPT ![rs].Arg = @ + d.Square1Value, ![rs].NumSquaresLeft = @ + 1]
              ELSE R2
        R4 == IF R3[rn].Type = "sum"
              THEN [R3 EXCEPT ![rn].Arg = @ + d.Square2Value, ![rn].NumSquaresLeft = @ + 1]
              ELSE R3
    IN  [b EXCEPT !.O = [b.O EXCEPT ![s] = 0, ![neighbor] = 0], !.D = D1, !.R = R4]

\* the checks of TryAssign on the two squares' restrictions
SharedEqualCheck(d, r) == ~(d.Square1Value # d.Square1Value) /\ Check(r, d.Square1Value, 1)

SharedSumCheck(d, r) == Check(r, d.Square1Value + d.Square2Value, 2)

NeighborCheck(d, r) == Check(r, d.Square2Value, 1)

TryAssignNeighbor(b, di, s) == FacingNeighbor(s, GetRotation(b.D[di]))

TryAssignOk(b, di, s) ==
    LET d == b.D[di]
        neighbor == TryAssignNeighbor(b, di, s)
    IN  /\ neighbor # 0
        /\ b.O[neighbor] = 0
        /\ IF grid[s] = grid[neighbor]
           THEN /\ (b.R[grid[s]].Type = "eq" => SharedEqualCheck(d, b.R[grid[s]]))
                /\ (b.R[grid[s]].Type = "sum" => SharedSumCheck(d, b.R[grid[s]]))
           ELSE NeighborCheck(d, b.R[grid[neighbor]])

\* ------------------------------------------------------------- MoveQueue
\* by is not a field of Move: it records the depth of the makeNextMove
\* invocation that pushed the move (0 until it is pushed)
NewMove(type, di, s) ==
    [MoveType |-> type, Domino |-> di, GridSquare |-> s, Pruned |-> FALSE,
     neighbor |-> 0, wasBlank |-> FALSE, neighborWasBlank |-> FALSE, by |-> 0]

\* TryPush with a TryAssign that marks the selected square before its checks
TryPushMarksFirst(b, m) ==
    CASE m.MoveType = "rotate" ->
            [ok |-> TRUE,
             b |-> [b EXCEPT !.D = [b.D EXCEPT ![m.Domino] = Rotate90DegreesClockwise(@)],
                             !.Q = Append(b.Q, m)]]
      [] m.MoveType = "swap" ->
            [ok |-> TRUE,
             b |-> [b EXCEPT !.D = [b.D EXCEPT ![m.Domino] = Swap(@)],
                             !.Q = Append(b.Q, m)]]
      [] m.MoveType = "assign" ->
            IF TryAssignOk(b, m.Domino, m.GridSquare)
            THEN LET neighbor == TryAssignNeighbor(b, m.Domino, m.GridSquare)
                     a == Assign(b, m.Domino, m.GridSquare, neighbor)
                 IN  [ok |-> TRUE,
                      b |-> [a.b EXCEPT !.Q = Append(b.Q,
                                [m EXCEPT !.neighbor = neighbor,
                                          !.wasBlank = a.wasBlank,
                                          !.neighborWasBlank = a.neighborWasBlank])]]
            ELSE [ok |-> FALSE, b |-> [b EXCEPT !.O = [b.O EXCEPT ![m.GridSquare] = m.Domino]]]
      [] OTHER -> [ok |-> FALSE, b |-> b]

\* TryPush: [ok, b]: whether the move was pushed and the board afterwards
TryPush(b, m) ==
    CASE m.MoveType = "rotate" ->
            [ok |-> TRUE,
             b |-> [b EXCEPT !.D = [b.D EXCEPT ![m.Domino] = Rotate90DegreesClockwise(@)],
                             !.Q = Append(b.Q, m)]]
      [] m.MoveType = "swap" ->
            [ok |-> TRUE,
             b |-> [b EXCEPT !.D = [b.D EXCEPT ![m.Domino] = Swap(@)],
                             !.Q = Append(b.Q, m)]]
      [] m.MoveType = "assign" ->
            IF TryAssignOk(b, m.Domino, m.GridSquare)
            THEN LET neighbor == TryAssignNeighbor(b, m.Domino, m.GridSquare)
                     a == Assign(b, m.Domino, m.GridSquare, neighbor)
                 IN  [ok |-> TRUE,
                      b |-> [a.b EXCEPT !.Q = Append(b.Q,
                                [m EXCEPT !.neighbor = neighbor,
                                          !.wasBlank = a.wasBlank,
                                          !.neighborWasBlank = a.neighborWasBlank])]]
            ELSE [ok |-> FALSE, b |-> b]
      [] OTHER -> [ok |-> FALSE, b |-> b]

\* the UndoFunc stored on move m
UndoFunc(b, m) ==
    CASE m.MoveType = "rotate" ->
            [b EXCEPT !.D = [b.D EXCEPT ![m.Domino] = Rotate90DegreesCounterClockwise(@)]]
      [] m.MoveType = "swap" -> [b EXCEPT !.D = [b.D EXCEPT ![m.Domino] = Swap(@)]]
      [] OTHER -> AssignUndo(b, m)

\* Pop that shortens the log without running the move's UndoFunc
PopWithoutUndo(b) ==
    IF Len(b.Q) = 0 THEN b
    ELSE [b EXCEPT !.Q = SubSeq(b.Q, 1, Len(b.Q) - 1)]

Pop(b) ==
    IF Len(b.Q) = 0 THEN b
    ELSE UndoFunc([b EXCEPT !.Q = SubSeq(b.Q, 1, Len(b.Q) - 1)], b.Q[Len(b.Q)])

\* PruneUselessMoves: the loop from index i on (indices count from 1 here, so
\* Go's i is i - 1), fi being firstRotateIndex; firstRotateMove is always q[fi].
\* [panics, Q]: whether an index was out of range, and the log with its marks
RECURSIVE PruneFrom(_, _, _)
PruneFrom(q, i, fi) ==
    IF i > Len(q) THEN [panics |-> FALSE, Q |-> q]
    ELSE IF q[i].MoveType # "rotate" THEN PruneFrom(q, i + 1, fi)
    ELSE IF q[fi].Domino # q[i].Domino THEN PruneFrom(q, i + 1, i)
    ELSE IF i - fi # 3 THEN PruneFrom(q, i + 1, fi)
    ELSE IF i + 1 > Len(q) THEN [panics |-> TRUE, Q |-> q]
    ELSE IF q[i + 1].MoveType = "assign" /\ q[i + 1].Domino = q[fi].Domino
         THEN PruneFrom(q, i + 1, fi)
    ELSE PruneFrom([k \in 1..Len(q) |->
                        IF k >= fi /\ k <= i THEN [q[k] EXCEPT !.Pruned = TRUE] ELSE q[k]],
                   i + 1, i + 1)

PruneUselessMoves(q) ==
    IF Len(q) = 0 THEN [panics |-> TRUE, Q |-> q] ELSE PruneFrom(q, 2, 1)

\* ------------------------------------------------------------- DominoSet
RECURSIVE CandidatesFrom(_, _, _)
CandidatesFrom(b, square, di) ==
    IF di > Len(b.D) THEN <<>>
    ELSE LET domino == b.D[di]
             leftMatch == Check(b.R[grid[square]], domino.Square1Value, 1)
             rightMatch == Check(b.R[grid[square]], domino.Square2Value, 1)
             rest == CandidatesFrom(b, square, di + 1)
         IN  IF domino.IsAssigned \/ (~leftMatch /\ ~rightMatch) THEN rest
             ELSE <<[Domino |-> di, isLeftMatch |-> leftMatch,
                     isRightMatch |-> rightMatch]>> \o rest

FindAvailableCandidates(b, square) == CandidatesFrom(b, square, 1)

\* ------------------------------------------------------- pickEmptySquare
\* the open squares in row-major scan order
RECURSIVE BlankSquaresFrom(_, _)
BlankSquaresFrom(b, c) ==
    IF c > NumCells THEN <<>>
    ELSE (IF grid[c] # 0 /\ b.O[c] = 0 THEN <<c>> ELSE <<>>) \o BlankSquaresFrom(b, c + 1)

BlankSquares(b) == BlankSquaresFrom(b, 1)

\* one of the loops over blankSquares: the first of them that is in S (0: none)
FirstIn(sq, S) ==
    IF \E k \in 1..Len(sq) : sq[k] \in S
    THEN sq[CHOOSE k \in 1..Len(sq) : sq[k] \in S /\ \A j \in 1..(k - 1) : sq[j] \notin S]
    ELSE 0

IsSingleSum(b, c) == b.R[grid[c]].Type = "sum" /\ b.R[grid[c]].NumSquaresLeft = 1

IsBoundEqual(b, c) == b.R[grid[c]].Type = "eq" /\ b.R[grid[c]].Arg # -1

IsGtLt(b, c) == b.R[grid[c]].Type = "gt" \/ b.R[grid[c]].Type = "lt"

\* index out of range (a run-time panic) when no square is open
pickEmptySquarePanics(b) == Len(BlankSquares(b)) = 0

\* pickEmptySquare with its first two loops in the other order
pickEmptySquareEqualFirst(b) ==
    LET blankSquares == BlankSquares(b)
        singleSum == {c \in Cells : grid[c] # 0 /\ IsSingleSum(b, c)}
        boundEqual == {c \in Cells : grid[c] # 0 /\ IsBoundEqual(b, c)}
        gtLt == {c \in Cells : grid[c] # 0 /\ IsGtLt(b, c)}
    IN  IF FirstIn(blankSquares, boundEqual) # 0 THEN FirstIn(blankSquares, boundEqual)
        ELSE IF FirstIn(blankSquares, singleSum) # 0 THEN FirstIn(blankSquares, singleSum)
        ELSE IF FirstIn(blankSquares, gtLt) # 0 THEN FirstIn(blankSquares, gtLt)
        ELSE blankSquares[1]

pickEmptySquare(b) ==
    LET blankSquares == BlankSquares(b)
        singleSum == {c \in Cells : grid[c] # 0 /\ IsSingleSum(b, c)}
        boundEqual == {c \in Cells : grid[c] # 0 /\ IsBoundEqual(b, c)}
        gtLt == {c \in Cells : grid[c] # 0 /\ IsGtLt(b, c)}
    IN  IF FirstIn(blankSquares, singleSum) # 0 THEN FirstIn(blankSquares, singleSum)
        ELSE IF FirstIn(blankSquares, boundEqual) # 0 THEN FirstIn(blankSquares, boundEqual)
        ELSE IF FirstIn(blankSquares, gtLt) # 0 THEN FirstIn(blankSquares, gtLt)
        ELSE blankSquares[1]

\* ------------------------------------------------------------ the loader
\* what parseRestrictedRegion accepts for one region: "gt v", "lt v", "sum v", "eq".
\* An eq region's Arg is the unbound sentinel -1 (model.go's Check and Assign) or
\* the zero value main.go's Restriction{Type: typ} leaves in it.
RegionKinds ==
    [Type : {"gt", "lt", "sum"}, Arg : 0..MaxArg] \cup [Type : {"eq"}, Arg : {-1, 0}]

NoneRestriction == [Type |-> "none", Arg |-> 0, NumSquaresLeft |-> 0]

RegionSquares(g, r) == {c \in Cells : g[c] = r}

\* parseRow and parseRestrictedRegion: every active square has its own "none"
\* object or shares a region's object; regions are numbered in scan order of
\* their first square
GridOk(g) ==
    /\ \A c \in Cells : g[c] \in (0..MaxRegions) \cup {NoneOf(c)}
    /\ \A r \in 2..MaxRegions :
          RegionSquares(g, r) # {} =>
             /\ RegionSquares(g, r - 1) # {}
             /\ \E c \in RegionSquares(g, r - 1) : \A e \in RegionSquares(g, r) : c < e

BuildRestrictions(g, kinds) ==
    [r \in RIds |->
        IF r <= MaxRegions /\ RegionSquares(g, r) # {}
        THEN [Type |-> kinds[r].Type, Arg |-> kinds[r].Arg,
              NumSquaresLeft |-> Cardinality(RegionSquares(g, r))]
        ELSE NoneRestriction]

\* parseDominoes: each domino unrotated and unassigned
NewDomino(v1, v2) ==
    [Square1Value |-> v1, Square2Value |-> v2, IsAssigned |-> FALSE, rotation |-> 0]

DominoLists ==
    UNION {[1..n -> [Square1Value : 0..MaxPip, Square2Value : 0..MaxPip,
                     IsAssigned : {FALSE}, rotation : {0}]] : n \in 0..MaxDominoes}

Init ==
    /\ grid \in [Cells -> 0..(MaxRegions + NumCells)]
    /\ GridOk(grid)
    /\ \E kinds \in [1..MaxRegions -> RegionKinds] :
          /\ \A r \in 1..MaxRegions :
                RegionSquares(grid, r) = {} => kinds[r] = [Type |-> "gt", Arg |-> 0]
          /\ restrictions = BuildRestrictions(grid, kinds)
    /\ dominoes \in DominoLists
    /\ DominoAssigned = [c \in Cells |-> 0]
    /\ moveQueue = <<>>
    /\ stack = <<>>
    /\ status = "start"
    /\ initial = [R |-> restrictions, D |-> dominoes, O |-> DominoAssigned, Q |-> moveQueue]

\* ------------------------------------------------------------ the search
SetBoard(b) ==
    /\ restrictions' = b.R
    /\ dominoes' = b.D
    /\ DominoAssigned' = b.O
    /\ moveQueue' = b.Q

\* entry is not a local of makeNextMove: it records the board b the invocation
\* was entered with
NewFrame(square, b) ==
    [emptySquare |-> square, candidates |-> <<>>, ci |-> 0, i |-> 0,
     numIterations |-> 0, defers |-> 0, pc |-> "enter", success |-> FALSE,
     entry |-> b]

\* the move as the invocation on top of the stack pushes it
PushedMove(type, di, s) == [NewMove(type, di, s) EXCEPT !.by = Len(stack)]

Top == stack[Len(stack)]

SetTop(f) == stack' = [stack EXCEPT ![Len(stack)] = f]

Running == status = "search" /\ Len(stack) > 0

\* main: pickEmptySquare(grid), then the root makeNextMove
Start ==
    /\ status = "start"
    /\ IF pickEmptySquarePanics(Board)
       THEN status' = "crashed" /\ stack' = stack
       ELSE status' = "search" /\ stack' = <<NewFrame(pickEmptySquare(Board), Board)>>
    /\ UNCHANGED <<grid, restrictions, dominoes, DominoAssigned, moveQueue, initial>>

\* makeNextMove lines 85-93: the candidates, and the two returns without any
Enter ==
    /\ Running
    /\ Top.pc = "enter"
    /\ LET candidates == FindAvailableCandidates(Board, Top.emptySquare)
       IN  IF Len(candidates) = 0
           THEN SetTop([Top EXCEPT !.pc = "return", !.success = (Len(dominoes) = 0)])
           ELSE SetTop([Top EXCEPT !.candidates = candidates, !.ci = 1, !.pc = "candidate"])
    /\ UNCHANGED <<grid, restrictions, dominoes, DominoAssigned, moveQueue, status, initial>>

\* the number of attempts counted down from four instead of eight
NumIterationsFromFour(candidate) ==
    LET n1 == IF ~candidate.isRightMatch THEN 4 \div 2 ELSE 4
    IN  IF ~candidate.isLeftMatch THEN n1 \div 2 ELSE n1

\* lines 97-101 and 102-104: the number of assign attempts for a candidate
NumIterations(candidate) ==
    LET n1 == IF ~candidate.isRightMatch THEN 8 \div 2 ELSE 8
    IN  IF ~candidate.isLeftMatch THEN n1 \div 2 ELSE n1

\* lines 96-116: the next candidate (with its swap and the deferred pop of it),
\* or line 150 after the last
NextCandidate ==
    /\ Running
    /\ Top.pc = "candidate"
    /\ IF Top.ci > Len(Top.candidates)
       THEN /\ SetTop([Top EXCEPT !.pc = "return", !.success = FALSE])
            /\ UNCHANGED <<restrictions, dominoes, DominoAssigned, moveQueue>>
       ELSE LET candidate == Top.candidates[Top.ci]
                f == [Top EXCEPT !.numIterations = NumIterations(candidate),
                                 !.i = 0, !.pc = "assign"]
            IN  IF ~candidate.isLeftMatch
                THEN /\ SetBoard(TryPush(Board,
                            PushedMove("swap", candidate.Domino, Top.emptySquare)).b)
                     /\ SetTop([f EXCEPT !.defers = @ + 1])
                ELSE /\ SetTop(f)
                     /\ UNCHANGED <<restrictions, dominoes, DominoAssigned, moveQueue>>
    /\ UNCHANGED <<grid, status, initial>>

\* lines 118-126: the assign attempt and, when it is pushed, pickEmptySquare and
\* the recursive call
TryAssignStep ==
    /\ Running
    /\ Top.pc = "assign"
    /\ LET candidate == Top.candidates[Top.ci]
           r == TryPush(Board, PushedMove("assign", candidate.Domino, Top.emptySquare))
       IN  /\ SetBoard(r.b)
           /\ IF ~r.ok
              THEN /\ SetTop([Top EXCEPT !.pc = "rotate"])
                   /\ status' = status
              ELSE IF pickEmptySquarePanics(r.b)
                   THEN /\ status' = "panic"
                        /\ stack' = stack
                   ELSE /\ status' = status
                        /\ stack' = Append([stack EXCEPT ![Len(stack)].pc = "wait"],
                                           NewFrame(pickEmptySquare(r.b), r.b))
    /\ UNCHANGED <<grid, initial>>

\* lines 129-131: the recursive call failed, undo the assign
PopAssign ==
    /\ Running
    /\ Top.pc = "undo"
    /\ SetBoard(Pop(Board))
    /\ SetTop([Top EXCEPT !.pc = "rotate"])
    /\ UNCHANGED <<grid, status, initial>>

\* lines 135-147: the rotate, the deferred pop of it, and the loops' increments
Rotate ==
    /\ Running
    /\ Top.pc = "rotate"
    /\ LET candidate == Top.candidates[Top.ci]
       IN  /\ SetBoard(TryPush(Board,
                  PushedMove("rotate", candidate.Domino, Top.emptySquare)).b)
           /\ IF Top.i + 1 < Top.numIterations
              THEN SetTop([Top EXCEPT !.defers = @ + 1, !.i = @ + 1, !.pc = "assign"])
              ELSE SetTop([Top EXCEPT !.defers = @ + 1, !.i = @ + 1,
                                      !.ci = @ + 1, !.pc = "candidate"])
    /\ UNCHANGED <<grid, status, initial>>

\* a deferred function of a call that returns false (lines 111-115, 142-146)
DeferredPop ==
    /\ Running
    /\ Top.pc = "return"
    /\ ~Top.success
    /\ Top.defers > 0
    /\ SetBoard(Pop(Board))
    /\ SetTop([Top EXCEPT !.defers = @ - 1])
    /\ UNCHANGED <<grid, status, initial>>

\* the call returns: to main (lines 74-80), or to the caller's line 126
Return ==
    /\ Running
    /\ Top.pc = "return"
    /\ Top.success \/ Top.defers = 0
    /\ IF Len(stack) = 1
       THEN /\ stack' = <<>>
            /\ status' = IF Top.success THEN "solved" ELSE "exhausted"
       ELSE /\ status' = status
            /\ stack' = [SubSeq(stack, 1, Len(stack) - 1) EXCEPT ![Len(stack) - 1] =
                            IF Top.success
                            THEN [@ EXCEPT !.pc = "return", !.success = TRUE]
                            ELSE [@ EXCEPT !.pc = "undo"]]
    /\ UNCHANGED <<grid, restrictions, dominoes, DominoAssigned, moveQueue, initial>>

\* pickEmptySquare panicked under line 126: the deferred functions of each call
\* run as the panic unwinds (success is still false in every one of them)
PanicDeferredPop ==
    /\ status = "panic"
    /\ Len(stack) > 0
    /\ Top.defers > 0
    /\ SetBoard(Pop(Board))
    /\ SetTop([Top EXCEPT !.defers = @ - 1])
    /\ UNCHANGED <<grid, status, initial>>

PanicUnwind ==
    /\ status = "panic"
    /\ Len(stack) > 0
    /\ Top.defers = 0
    /\ stack' = SubSeq(stack, 1, Len(stack) - 1)
    /\ status' = IF Len(stack) = 1 THEN "crashed" ELSE status
    /\ UNCHANGED <<grid, restrictions, dominoes, DominoAssigned, moveQueue, initial>>

Next ==
    \/ Start
    \/ Enter
    \/ NextCandidate
    \/ TryAssignStep
    \/ PopAssign
    \/ Rotate
    \/ DeferredPop
    \/ Return
    \/ PanicDeferredPop
    \/ PanicUnwind

Spec == Init /\ [][Next]_vars

\* -------------------------------------------- puzzles with several regions
\* the loader on grids in which every active square may belong to a region of
\* its own kind (up to one region per square), with one argument per kind
ManyRegionKinds ==
    {[Type |-> "none", Arg |-> 0], [Type |-> "lt", Arg |-> MaxPip],
     [Type |-> "sum", Arg |-> MaxPip],
     [Type |-> "eq", Arg |-> -1], [Type |-> "eq", Arg |-> 0]}

\* regions are numbered in scan order of their first square
ManyRegionsOk(g) ==
    \A c \in Cells :
        /\ g[c] \in 0..NumCells
        /\ g[c] > 1 => \E e \in 1..(c - 1) : g[e] = g[c] - 1

BuildManyRestrictions(g, kinds) ==
    [r \in RIds |->
        IF RegionSquares(g, r) # {} /\ kinds[r].Type # "none"
        THEN [Type |-> kinds[r].Type, Arg |-> kinds[r].Arg,
              NumSquaresLeft |-> Cardinality(RegionSquares(g, r))]
        ELSE NoneRestriction]

InitManyRegions ==
    /\ grid \in [Cells -> 0..NumCells]
    /\ ManyRegionsOk(grid)
    /\ \E kinds \in [1..NumCells -> ManyRegionKinds] :
          /\ \A r \in 1..NumCells :
                /\ RegionSquares(grid, r) = {} => kinds[r].Type = "none"
                /\ kinds[r].Type = "none" => Cardinality(RegionSquares(grid, r)) <= 1
          /\ restrictions = BuildManyRestrictions(grid, kinds)
    /\ dominoes \in DominoLists
    /\ DominoAssigned = [c \in Cells |-> 0]
    /\ moveQueue = <<>>
    /\ stack = <<>>
    /\ status = "start"
    /\ initial = [R |-> restrictions, D |-> dominoes, O |-> DominoAssigned, Q |-> moveQueue]

SpecManyRegions == InitManyRegions /\ [][Next]_vars

\* ------------------------------------------------------------ properties
ActiveSquares == {c \in Cells : grid[c] # 0}

Occupied(c) == DominoAssigned[c] # 0

AssignMoves == {k \in 1..Len(moveQueue) : moveQueue[k].MoveType = "assign"}

\* the assign moves in the log that put a domino half on square c
MovesOn(c) ==
    {k \in AssignMoves : moveQueue[k].GridSquare = c \/ moveQueue[k].neighbor = c}

\* the values the log's assign moves placed on square c: side A on the selected
\* square, side B on the neighbour
PlacedValues(c) ==
    {IF moveQueue[k].GridSquare = c
     THEN dominoes[moveQueue[k].Domino].Square1Value
     ELSE dominoes[moveQueue[k].Domino].Square2Value : k \in MovesOn(c)}

CompleteBoard ==
    /\ \A c \in ActiveSquares : Occupied(c)
    /\ \A di \in 1..Len(dominoes) : dominoes[di].IsAssigned

\* C1: whenever the root makeNextMove reports success, every active square is
\* occupied by a domino half and no domino of the set is unassigned.
C1_SuccessIsComplete == status = "solved" => CompleteBoard

\* C2: when a successful assign leaves no open active square and no unassigned
\* domino, the search is solved (or on its way back to the root): it is neither
\* a failure nor a fault.
C2_CompleteBoardIsSolved ==
    (CompleteBoard /\ Len(moveQueue) > 0) => status \in {"search", "solved"}

\* a placement of one domino: the selected square, the facing, the side order
Placements ==
    {p \in [s : Cells, rot : 0..3, swapped : BOOLEAN] :
        grid[p.s] # 0 /\ FacingNeighbor(p.s, p.rot) # 0}

SquaresOf(p) == {p.s, FacingNeighbor(p.s, p.rot)}

\* the value placement ps puts on square c (c is covered by ps)
SolutionValue(ps, c) ==
    LET di == CHOOSE k \in DOMAIN ps : c \in SquaresOf(ps[k])
        d == initial.D[di]
        onSelected == ps[di].s = c
    IN  IF onSelected = ps[di].swapped THEN d.Square2Value ELSE d.Square1Value

RECURSIVE SumOver(_, _)
SumOver(S, f) ==
    IF S = {} THEN 0
    ELSE LET c == CHOOSE c \in S : TRUE IN f[c] + SumOver(S \ {c}, f)

\* ps covers every active square exactly once and satisfies every region
IsSolution(ps) ==
    /\ \A j, k \in DOMAIN ps : j # k => SquaresOf(ps[j]) \cap SquaresOf(ps[k]) = {}
    /\ UNION {SquaresOf(ps[k]) : k \in DOMAIN ps} = ActiveSquares
    /\ LET val == [c \in ActiveSquares |-> SolutionValue(ps, c)]
       IN  \A r \in RIds :
              LET region == RegionSquares(grid, r)
                  ir == initial.R[r]
              IN  CASE ir.Type = "gt" -> \A c \in region : val[c] > ir.Arg
                    [] ir.Type = "lt" -> \A c \in region : val[c] < ir.Arg
                    [] ir.Type = "sum" -> region # {} => SumOver(region, val) = ir.Arg
                    [] ir.Type = "eq" ->
                          /\ \A c, e \in region : val[c] = val[e]
                          /\ ir.Arg # -1 => \A c \in region : val[c] = ir.Arg
                    [] OTHER -> TRUE

SolutionExists == \E ps \in [1..Len(initial.D) -> Placements] : IsSolution(ps)

\* C3: the root makeNextMove returns false only when the puzzle has no solution.
C3_FailureOnlyWithoutSolution == status = "exhausted" => ~SolutionExists

Adjacent(a, b) ==
    \/ XOf(a) = XOf(b) /\ (YOf(a) - YOf(b) = 1 \/ YOf(b) - YOf(a) = 1)
    \/ YOf(a) = YOf(b) /\ (XOf(a) - XOf(b) = 1 \/ XOf(b) - XOf(a) = 1)

SquaresHolding(di) == {c \in Cells : DominoAssigned[c] = di}

AssignsOf(di) == {k \in AssignMoves : moveQueue[k].Domino = di}

\* C4: no square holds a domino it was not given and no domino is on more than
\* one pair of squares: an assigned domino is on exactly two adjacent squares,
\* the selected square of its one assign move and the neighbour its facing
\* points at; an unassigned domino is on none; the occupied squares are twice
\* the assigned dominoes.
C4_NoDoubleOccupancy ==
    /\ \A c \in Cells :
          /\ DominoAssigned[c] \in 0..Len(dominoes)
          /\ grid[c] = 0 => DominoAssigned[c] = 0
    /\ \A di \in 1..Len(dominoes) :
          IF dominoes[di].IsAssigned
          THEN /\ Cardinality(AssignsOf(di)) = 1
               /\ LET m == moveQueue[CHOOSE k \in AssignsOf(di) : TRUE]
                  IN  /\ SquaresHolding(di) = {m.GridSquare, m.neighbor}
                      /\ m.neighbor = FacingNeighbor(m.GridSquare, GetRotation(dominoes[di]))
                      /\ m.neighbor # 0
                      /\ Adjacent(m.GridSquare, m.neighbor)
               /\ Cardinality(SquaresHolding(di)) = 2
          ELSE SquaresHolding(di) = {} /\ AssignsOf(di) = {}
    /\ Cardinality({c \in Cells : Occupied(c)})
          = 2 * Cardinality({di \in 1..Len(dominoes) : dominoes[di].IsAssigned})

C4_Witness == Cardinality({c \in Cells : Occupied(c)}) = 4

\* a pushed move, popped at once, leaves the board (dominoes, occupancy,
\* restrictions and the log) as it was
UndoSymmetric(b, m) == LET r == TryPush(b, m) IN r.ok => Pop(r.b) = b

\* C5: in every reachable state, for each move kind the search can push there
\* (a rotate or a swap of any domino, an assign of an unassigned domino to an
\* open square), a successful TryPush followed by Pop restores the domino, both
\* squares' occupancy, every restriction and the log exactly.
C5_UndoSymmetry ==
    \A di \in 1..Len(dominoes) : \A s \in ActiveSquares :
        /\ UndoSymmetric(Board, NewMove("rotate", di, s))
        /\ UndoSymmetric(Board, NewMove("swap", di, s))
        /\ (~dominoes[di].IsAssigned /\ ~Occupied(s))
              => UndoSymmetric(Board, NewMove("assign", di, s))

\* mid-search, an assign that changes a restriction's state can be pushed
C5_Witness ==
    /\ Len(moveQueue) > 0
    /\ \E di \in 1..Len(dominoes) : \E s \in ActiveSquares :
          /\ ~dominoes[di].IsAssigned
          /\ ~Occupied(s)
          /\ TryPush(Board, NewMove("assign", di, s)).ok
          /\ TryPush(Board, NewMove("assign", di, s)).b.R # restrictions

RECURSIVE PopAll(_)
PopAll(b) == IF Len(b.Q) = 0 THEN b ELSE PopAll(Pop(b))

\* C6: in every reachable state, popping every entry of the move log, last
\* first, gives the initial dominoes, squares and restrictions.
C6_UndoAllIsInitial == PopAll(Board) = initial

C6_Witness ==
    /\ \E k \in 1..Len(moveQueue) : moveQueue[k].MoveType = "swap"
    /\ \E k \in 1..Len(moveQueue) : moveQueue[k].MoveType = "rotate"
    /\ Cardinality(AssignMoves) = 2

\* C7: every value placed on a square of an equal region is the region's bound
\* value.
C7_EqualRegionValues ==
    \A r \in RIds :
        restrictions[r].Type = "eq" =>
            \A c \in RegionSquares(grid, r) : \A v \in PlacedValues(c) :
                v = restrictions[r].Arg

PlacedValue == [c \in Cells |-> IF PlacedValues(c) = {} THEN 0
                                ELSE CHOOSE v \in PlacedValues(c) : TRUE]

RegionFull(r) ==
    RegionSquares(grid, r) # {} /\ \A c \in RegionSquares(grid, r) : Occupied(c)

\* C8: when every square of a sum region is occupied, the placed values add up
\* to the region's original target; the remaining target is 0 when the
\* squares-left counter is 0.
C8_SumRegionClosure ==
    \A r \in RIds :
        restrictions[r].Type = "sum" =>
            /\ RegionFull(r) => SumOver(RegionSquares(grid, r), PlacedValue) = initial.R[r].Arg
            /\ restrictions[r].NumSquaresLeft = 0 => restrictions[r].Arg = 0

\* a full sum region of three squares and a positive target: one domino lies
\* inside it, the other has one half in it
C8_Witness ==
    \E r \in RIds :
        /\ restrictions[r].Type = "sum"
        /\ Cardinality(RegionSquares(grid, r)) = 3
        /\ RegionFull(r)
        /\ initial.R[r].Arg > 0

\* C9: the remaining target of a sum restriction is never negative.
C9_SumRemainderNonNegative ==
    \A r \in RIds : restrictions[r].Type = "sum" => restrictions[r].Arg >= 0

\* a sum region with an open square whose target the placed values used up
C9_Witness ==
    \E r \in RIds :
        /\ restrictions[r].Type = "sum"
        /\ restrictions[r].Arg = 0
        /\ initial.R[r].Arg > 0
        /\ restrictions[r].NumSquaresLeft > 0

\* C10: every value placed on a square of a greater-than(v) region is greater
\* than v, and less than v on a square of a less-than(v) region.
C10_GtLtSatisfied ==
    \A r \in RIds : \A c \in RegionSquares(grid, r) : \A v \in PlacedValues(c) :
        /\ restrictions[r].Type = "gt" => v > restrictions[r].Arg
        /\ restrictions[r].Type = "lt" => v < restrictions[r].Arg

\* C12: an assign that TryPush refuses leaves the board as it was: the move log,
\* the domino, the occupancy of every square and every constraint are unchanged,
\* for every domino and every square of the grid in every reachable board
C12_FailedAssignNoEffect ==
    \A di \in 1..Len(dominoes) : \A s \in ActiveSquares :
        LET r == TryPush(Board, NewMove("assign", di, s))
        IN  ~r.ok => r.b = Board

\* the search has just had an assign refused by a constraint check: the facing
\* neighbour exists and is free, and the board still refuses the same assign
C12_Witness ==
    /\ Running
    /\ Top.pc = "rotate"
    /\ LET di == Top.candidates[Top.ci].Domino
           neighbor == TryAssignNeighbor(Board, di, Top.emptySquare)
       IN  /\ neighbor # 0
           /\ DominoAssigned[neighbor] = 0
           /\ ~TryAssignOk(Board, di, Top.emptySquare)
           /\ Len(moveQueue) > 0

\* C13: a makeNextMove invocation that returns false leaves the move log and the
\* board as they were at its entry.  While its deferred functions run, the log
\* is the entry log followed by exactly the swap and rotate moves this invocation
\* pushed and has not yet popped; once they have all run the board is the entry
\* board.  When the root invocation has failed the log is empty and the board is
\* the loaded one.
C13_FailedCallRestoresEntry ==
    /\ (Running /\ Top.pc = "return" /\ ~Top.success) =>
          LET n == Len(Top.entry.Q)
          IN  /\ Len(moveQueue) = n + Top.defers
              /\ SubSeq(moveQueue, 1, n) = Top.entry.Q
              /\ \A k \in (n + 1)..Len(moveQueue) :
                    /\ moveQueue[k].MoveType \in {"swap", "rotate"}
                    /\ moveQueue[k].by = Len(stack)
              /\ (Top.defers = 0 => Board = Top.entry)
    /\ (status = "exhausted" => moveQueue = <<>> /\ Board = initial)

\* a nested invocation has tried candidates, run all its deferred pops and is
\* about to return false to its caller
C13_Witness ==
    /\ Running
    /\ Len(stack) >= 2
    /\ Top.pc = "return"
    /\ ~Top.success
    /\ Top.defers = 0
    /\ Len(Top.candidates) > 0
    /\ Len(moveQueue) > 0

\* C15: whenever makeNextMove is about to attempt an assign, side A of the
\* candidate domino passes the single-value check of the selected square's
\* constraint in its current state
C15_SideAMatchesAtAssign ==
    (Running /\ Top.pc = "assign") =>
        Check(restrictions[grid[Top.emptySquare]],
              dominoes[Top.candidates[Top.ci].Domino].Square1Value, 1)

\* an assign is about to be attempted with a candidate whose side A did not
\* match when the candidates were enumerated (it was swapped first), on a
\* square whose constraint refuses the domino's other side
C15_Witness ==
    /\ Running
    /\ Top.pc = "assign"
    /\ ~Top.candidates[Top.ci].isLeftMatch
    /\ ~Check(restrictions[grid[Top.emptySquare]],
              dominoes[Top.candidates[Top.ci].Domino].Square2Value, 1)

\* C18: pickEmptySquare is never called by the search when no square is open:
\* the call at line 126, right after an assign was pushed, always finds an open
\* square (it never panics on blankSquares[0])
C18_PickHasOpenSquare == status # "panic"

\* the invocation on top of the stack is about to execute moveQueue.Pop():
\* line 131 after a failed recursive call, or one of its deferred functions,
\* on a return with success false or while a panic unwinds
PopPending ==
    \/ /\ Running
       /\ \/ Top.pc = "undo"
          \/ Top.pc = "return" /\ ~Top.success /\ Top.defers > 0
    \/ /\ status = "panic"
       /\ Len(stack) > 0
       /\ Top.defers > 0

\* C19: Pop is never executed on an empty move log, and every Pop that
\* makeNextMove executes, directly or in a deferred function, finds at the tail
\* of the log a move that the same invocation pushed
C19_PopFindsOwnMove ==
    PopPending =>
        /\ Len(moveQueue) > 0
        /\ moveQueue[Len(moveQueue)].by = Len(stack)

\* C20: in every reachable state an equal constraint is bound (its Arg is not
\* the sentinel -1) exactly when at least one square of its region is occupied
C20_EqualBoundIffOccupied ==
    \A r \in 1..MaxRegions :
        (restrictions[r].Type = "eq" /\ RegionSquares(grid, r) # {}) =>
            (restrictions[r].Arg # -1
                <=> \E c \in RegionSquares(grid, r) : DominoAssigned[c] # 0)

\* the open squares of board b, and the priority classes of the square selection
OpenSquares(b) == {c \in Cells : grid[c] # 0 /\ b.O[c] = 0}

SumWithOneLeft(b) ==
    {c \in OpenSquares(b) :
        /\ b.R[grid[c]].Type = "sum"
        /\ Cardinality({e \in OpenSquares(b) : grid[e] = grid[c]}) = 1}

BoundEqual(b) == {c \in OpenSquares(b) : b.R[grid[c]].Type = "eq" /\ b.R[grid[c]].Arg # -1}

GreaterOrLess(b) == {c \in OpenSquares(b) : b.R[grid[c]].Type \in {"gt", "lt"}}

HighestClass(b) ==
    IF SumWithOneLeft(b) # {} THEN SumWithOneLeft(b)
    ELSE IF BoundEqual(b) # {} THEN BoundEqual(b)
    ELSE IF GreaterOrLess(b) # {} THEN GreaterOrLess(b)
    ELSE OpenSquares(b)

UselessRun(q, a, n) ==
    /\ a + n - 1 <= Len(q)
    /\ \A k \in a..(a + n - 1) : q[k].MoveType = "rotate" /\ q[k].Domino = q[a].Domino
    /\ a > 1 => ~(q[a - 1].MoveType = "rotate" /\ q[a - 1].Domino = q[a].Domino)
    /\ a + n <= Len(q) =>
          /\ ~(q[a + n].MoveType = "rotate" /\ q[a + n].Domino = q[a].Domino)
          /\ ~(q[a + n].MoveType = "assign" /\ q[a + n].Domino = q[a].Domino)

\* entry k of q is one of four consecutive rotate moves of one domino
InFourRotates(q, k) ==
    \E a \in 1..Len(q) :
        /\ a <= k /\ k <= a + 3 /\ a + 3 <= Len(q)
        /\ \A j \in a..(a + 3) : q[j].MoveType = "rotate" /\ q[j].Domino = q[a].Domino

\* C17: on every log the search builds, when PruneUselessMoves returns, every
\* entry it marked is a rotate move among four consecutive rotate moves of one
\* domino, every run of exactly four consecutive rotate moves of one domino
\* that is not followed by an assign of that domino is marked completely, and
\* the log is otherwise as it was (same length, same order)
C17_PruneMarksUselessRuns ==
    LET res == PruneUselessMoves(moveQueue)
    IN  (Len(moveQueue) > 0 /\ ~res.panics) =>
            /\ \A k \in 1..Len(res.Q) : res.Q[k].Pruned => InFourRotates(moveQueue, k)
            /\ \A a \in 1..Len(moveQueue) :
                  UselessRun(moveQueue, a, 4) => \A k \in a..(a + 3) : res.Q[k].Pruned
            /\ [k \in 1..Len(res.Q) |-> [res.Q[k] EXCEPT !.Pruned = FALSE]] = moveQueue

\* the board after the moves of log q from index k on that are not marked
\* pruned have been applied to board b in order (a refused assign is skipped)
RECURSIVE ReplayFrom(_, _, _)
ReplayFrom(b, q, k) ==
    IF k > Len(q) THEN b
    ELSE ReplayFrom(IF q[k].Pruned THEN b
                    ELSE TryPush(b, NewMove(q[k].MoveType, q[k].Domino, q[k].GridSquare)).b,
                    q, k + 1)

\* the placement of board b: the domino on each square and the pips it shows
\* there (side A on the assign's square, side B on its neighbour; -1: none)
PlacementOf(b) ==
    [c \in Cells |->
        [domino |-> b.O[c],
         pips |-> IF \E k \in 1..Len(b.Q) : b.Q[k].MoveType = "assign" /\ b.Q[k].GridSquare = c
                  THEN b.D[b.O[c]].Square1Value
                  ELSE IF \E k \in 1..Len(b.Q) : b.Q[k].MoveType = "assign" /\ b.Q[k].neighbor = c
                  THEN b.D[b.O[c]].Square2Value
                  ELSE -1]]

\* C11: pruning is cosmetic.  For the log with which the search has covered
\* every active square and assigned every domino (the log of a successful
\* search), PruneUselessMoves marks no swap and no assign move, and replaying
\* from the loaded board only the moves it left unmarked gives the same
\* placement as replaying the whole log
C11_PruningIsCosmetic ==
    (Len(moveQueue) > 0 /\ (status = "solved" \/ CompleteBoard)) =>
        LET res == PruneUselessMoves(moveQueue)
        IN  /\ ~res.panics
            /\ \A k \in 1..Len(res.Q) : res.Q[k].Pruned => res.Q[k].MoveType = "rotate"
            /\ PlacementOf(ReplayFrom(initial, res.Q, 1))
                  = PlacementOf(ReplayFrom(initial, moveQueue, 1))

\* C21: on every puzzle with at least one active square the program stops only
\* as solved or as exhausted: it never ends with a run-time panic
C21_EndsSolvedOrExhausted == ActiveSquares # {} => status # "crashed"

\* C22: no rotation counter is ever negative and GetRotation is always in 0..3;
\* whenever an invocation is enumerating candidates (at its entry and between
\* two candidates) every unassigned domino's counter is a multiple of 4; every
\* assign attempt i of a candidate is made in facing i mod 4, and a candidate is
\* left for the next one only after at least four attempts
C22_RotationsComeInFours ==
    /\ \A di \in 1..Len(dominoes) :
          dominoes[di].rotation >= 0 /\ GetRotation(dominoes[di]) \in 0..3
    /\ (Running /\ Top.pc \in {"enter", "candidate"}) =>
          \A di \in 1..Len(dominoes) :
             ~dominoes[di].IsAssigned => dominoes[di].rotation % 4 = 0
    /\ (Running /\ Top.pc = "assign") =>
          /\ GetRotation(dominoes[Top.candidates[Top.ci].Domino]) = Top.i % 4
          /\ Top.i < Top.numIterations
    /\ (Running /\ Top.pc = "candidate" /\ Top.ci > 1) =>
          Top.i = Top.numIterations /\ Top.i >= 4

\* a nested invocation starts enumerating candidates while a domino that an
\* outer invocation tried in every facing and gave up is still unassigned
C22_Witness ==
    /\ Running
    /\ Len(stack) >= 2
    /\ Top.pc = "enter"
    /\ \E di \in 1..Len(dominoes) :
          ~dominoes[di].IsAssigned /\ dominoes[di].rotation >= 4

====
